---- MODULE Spec2Model ----
(***************************************************************************)
(* HexSimulation (src/src/hexSimulation.py): a stepped cellular-growth     *)
(* simulation on a bounded hexagonal grid.  The model keeps the fields of  *)
(* one HexSimulation object, the cells it has created, and the position of *)
(* the caller inside super_step() and run().                               *)
(*                                                                         *)
(* Cell objects are numbered in creation order (object identity); the id   *)
(* a cell was given by _get_cell_id is a field of the object (cell_ids).   *)
(* The grid holds object references, 0 for an empty coordinate.            *)
(***************************************************************************)
EXTENDS Integers, Sequences, FiniteSets, TLC

\* ------------------------------------------------------------------ bounds
Width == 1              \* columns of the grid
MaxCells == 2           \* cell objects created over the life of the simulation
MaxFitness == 1         \* fitness() returns a score in 0..MaxFitness
MaxStepsBound == 10     \* largest max_steps a simulation is constructed with
MaxDirectSteps == 1     \* super_step() calls made directly on the simulation
MaxSeeds == 1           \* cells a run starts from
MaxModules == 2         \* modules of the longest genome module list

\* -------------------------------------------------------- program constants
InactivityWindow == 5   \* run(): step_count - last_change > 5
non_module_outputs == 1 \* genome.non_module_outputs

\* genome.fitness: None, or a target value
NoTarget == [set |-> FALSE, value |-> 0]

Target(v) == [set |-> TRUE, value |-> v]
NoExc == "none"

\* self.bounds: two rows, so that every cell has neighbours inside the grid
\* and outside it
bounds == <<Width, 2>>

\* genome.modules: one module with a simulation class and one output slot
GenomeModules == << [simulation |-> TRUE, total_outputs |-> 1] >>

\* A module descriptor: whether it names a simulation class, and the number
\* of output slots it declares
ModuleDescriptors == [simulation : BOOLEAN, total_outputs : {1, 2}]

\* The module lists a genome may carry, the empty one included
ModuleLists ==
    UNION {[1..n -> ModuleDescriptors] : n \in 0..MaxModules}

Directions == 0..5
Coords == {<<x, y>> : x \in 0..(bounds[1] - 1), y \in 0..(bounds[2] - 1)}

\* ---------------------------------------------------------------- hex grid
\* Map.valid_coords: the bounds check
valid_coords(c) ==
    /\ 0 <= c[1] /\ c[1] < bounds[1]
    /\ 0 <= c[2] /\ c[2] < bounds[2]

\* Map.neighbor: the six hexagonal directions, axial convention
DirDelta(d) ==
    CASE d = 0 -> <<1, 0>>
      [] d = 1 -> <<1, -1>>
      [] d = 2 -> <<0, -1>>
      [] d = 3 -> <<-1, 0>>
      [] d = 4 -> <<-1, 1>>
      [] d = 5 -> <<0, 1>>

neighbor(c, d) == <<c[1] + DirDelta(d)[1], c[2] + DirDelta(d)[2]>>

\* Occupied coordinates of a grid
Occupied(h) == {c \in Coords : h[c] # 0}

\* Map.hash: a fingerprint computed from the occupancy alone
CoordIndex(c) == c[1] * bounds[2] + c[2]

RECURSIVE HashOf(_)
HashOf(S) ==
    IF S = {} THEN 0
    ELSE LET c == CHOOSE x \in S : TRUE
         IN  2 ^ CoordIndex(c) + HashOf(S \ {c})

hash(h) == HashOf(Occupied(h))

\* ------------------------------------------------------------------- state
VARIABLES
    genome_modules,   \* self.genome.modules: the ordered module descriptors
    module_simulations, \* self.module_simulations: the module each was built from
    hmap,             \* self.hmap: coordinate -> cell object, 0 when empty
    cells,            \* self.cells: the live-cell list
    cell_ids,         \* cell.id of every cell object, in creation order
    alive,            \* cell.alive of every cell object
    coords,           \* cell.userData['coords'] of every cell object
    next_cell_id,     \* self.next_cell_id
    last_change,      \* self.last_change
    step_count,       \* self.step_count
    created_cells,    \* self.created_cells
    destroyed_cells,  \* self.destroyed_cells
    mod_cells,        \* per module simulation: the cells it holds state for
    max_steps,        \* self.max_steps
    break_on_repeat,  \* self.break_on_repeat
    seen_states,      \* self.seen_states
    genome_fitness,   \* self.genome.fitness: NoTarget or Target(v)
    pc,               \* where the caller is: idle, collect, apply, step_end, check, done, aborted
    caller,           \* who runs the current tick: "none", "direct", "run"
    exc,              \* the exception the last call raised, NoExc when none
    all_outputs,      \* super_step's all_outputs: one entry per cell of the snapshot
    pairs,            \* handle_all_outputs' list(zip(self.cells, all_outputs))
    k,                \* position of handle_all_outputs in pairs
    loop_i,           \* run(): iterations of the for loop completed
    max_fitness,      \* run(): max_fitness
    result,           \* run(): the value returned, once pc is done
    reason,           \* which return statement of run() ended it
    hist              \* history: what the checked properties need to remember

vars == <<genome_modules, module_simulations, hmap, cells, cell_ids, alive, coords, next_cell_id, last_change,
          step_count, created_cells, destroyed_cells, mod_cells, max_steps,
          break_on_repeat, seen_states, genome_fitness, pc, caller, exc,
          all_outputs, pairs, k, loop_i, max_fitness, result, reason, hist>>

\* The simulation object as one value, for the operators below
Self ==
    [hmap |-> hmap, cells |-> cells, cell_ids |-> cell_ids, alive |-> alive,
     coords |-> coords, next_cell_id |-> next_cell_id,
     last_change |-> last_change, step_count |-> step_count,
     created_cells |-> created_cells, destroyed_cells |-> destroyed_cells,
     mod_cells |-> mod_cells, exc |-> NoExc, ret |-> 0, log |-> <<>>]

\* ------------------------------------------------------------ module setup
\* _init_module_simulations: one simulation per module that declares one,
\* in the order of the modules; each stands for the module it was built from
init_module_simulations(modules) ==
    SelectSeq([j \in 1..Len(modules) |-> j],
              LAMBDA j : modules[j].simulation)

RECURSIVE SumOutputs(_)
SumOutputs(j) ==
    IF j = 0 THEN 0 ELSE genome_modules[j].total_outputs + SumOutputs(j - 1)

\* genome.num_outputs
num_outputs == non_module_outputs + SumOutputs(Len(genome_modules))

\* --------------------------------------------------------------- lifecycle
raise(s, e) == [s EXCEPT !.exc = e]

\* a removal that leaves the list as it is
RemoveNothing(seq, x) == seq

\* list.remove: drops the first occurrence
RECURSIVE Remove(_, _)
Remove(seq, x) ==
    IF seq = <<>> THEN <<>>
    ELSE IF Head(seq) = x THEN Tail(seq)
    ELSE <<Head(seq)>> \o Remove(Tail(seq), x)

InList(seq, x) == \E j \in 1..Len(seq) : seq[j] = x

\* an id taken from the number of live cells, not from the counter
get_cell_id_reuse(s) ==
    [s EXCEPT !.next_cell_id = Len(s.cells) + 1, !.ret = Len(s.cells) + 1]

\* _get_cell_id: the id is returned in ret
get_cell_id(s) ==
    [s EXCEPT !.next_cell_id = @ + 1, !.ret = s.next_cell_id + 1]

\* cell_init: every module simulation's cell_init hook
cell_init(s, cell) ==
    [s EXCEPT !.mod_cells = [m \in DOMAIN @ |-> @[m] \cup {cell}]]

\* every module simulation's cell_destroy hook
cell_destroy_hooks(s, cell) ==
    [s EXCEPT !.mod_cells = [m \in DOMAIN @ |-> @[m] \ {cell}]]

\* a create_cell that notes the change before it checks its precondition
create_cell_marks_first(s, c) ==
    LET s1 == [s EXCEPT !.last_change = s.step_count]
    IN  IF ~valid_coords(c) THEN raise(s1, "AssertionError")
        ELSE IF s.hmap[c] # 0 THEN raise(s1, "AssertionError")
        ELSE LET s2 == get_cell_id(s1)
                 cell == Len(s.cell_ids) + 1
                 s3 == [s2 EXCEPT !.cell_ids = Append(@, s2.ret),
                                  !.alive = Append(@, TRUE),
                                  !.coords = Append(@, c),
                                  !.hmap[c] = cell,
                                  !.cells = Append(@, cell),
                                  !.created_cells = @ + 1,
                                  !.ret = cell]
             IN  cell_init(s3, cell)

create_cell(s, c) ==
    IF ~valid_coords(c) THEN raise(s, "AssertionError")
    ELSE IF s.hmap[c] # 0 THEN raise(s, "AssertionError")
    ELSE LET s1 == [s EXCEPT !.last_change = s.step_count]
             s2 == get_cell_id(s1)
             cell == Len(s.cell_ids) + 1
             s3 == [s2 EXCEPT !.cell_ids = Append(@, s2.ret),
                              !.alive = Append(@, TRUE),
                              !.coords = Append(@, c),
                              !.hmap[c] = cell,
                              !.cells = Append(@, cell),
                              !.created_cells = @ + 1,
                              !.ret = cell]
         IN  cell_init(s3, cell)

\* a destroy_cell that leaves the grid slot of the cell as it is
destroy_cell_keeps_grid(s, cell) ==
    LET s1 == [s EXCEPT !.last_change = s.step_count]
        s2 == cell_destroy_hooks(s1, cell)
    IN  IF ~InList(s2.cells, cell) THEN raise(s2, "ValueError")
        ELSE [s2 EXCEPT !.cells = Remove(@, cell),
                        !.destroyed_cells = @ + 1,
                        !.alive[cell] = FALSE]

\* a destroy_cell that leaves last_change as it is
destroy_cell_unmarked(s, cell) ==
    LET s2 == cell_destroy_hooks(s, cell)
    IN  IF ~InList(s2.cells, cell) THEN raise(s2, "ValueError")
        ELSE [s2 EXCEPT !.cells = Remove(@, cell),
                        !.hmap[s2.coords[cell]] = 0,
                        !.destroyed_cells = @ + 1,
                        !.alive[cell] = FALSE]

destroy_cell(s, cell) ==
    LET s1 == [s EXCEPT !.last_change = s.step_count]
        s2 == cell_destroy_hooks(s1, cell)
    IN  IF ~InList(s2.cells, cell) THEN raise(s2, "ValueError")
        ELSE [s2 EXCEPT !.cells = Remove(@, cell),
                        !.hmap[s2.coords[cell]] = 0,
                        !.destroyed_cells = @ + 1,
                        !.alive[cell] = FALSE]

\* a divide_cell that checks the bounds and not the occupancy
divide_cell_unchecked(s, cell, direction) ==
    LET c == neighbor(s.coords[cell], direction)
    IN  IF valid_coords(c) THEN create_cell(s, c) ELSE s

divide_cell(s, cell, direction) ==
    LET parent_coords == s.coords[cell]
        c == neighbor(parent_coords, direction)
    IN  IF valid_coords(c) /\ s.hmap[c] = 0
        THEN create_cell(s, c)
        ELSE s

\* ------------------------------------------------------- inputs and outputs
\* create_input of the concrete simulation: the occupancy of the six
\* neighbouring coordinates of the cell
create_input(s, cell) ==
    [d \in 1..6 |->
        LET c == neighbor(s.coords[cell], d - 1)
        IN  IF valid_coords(c) /\ s.hmap[c] # 0 THEN 1 ELSE 0]

\* a module simulation's create_input: whether it holds state for the cell
mod_create_input(s, m, cell) ==
    << IF cell \in s.mod_cells[m] THEN 1 ELSE 0 >>

RECURSIVE ModInputs(_, _, _)
ModInputs(s, cell, m) ==
    IF m > Len(module_simulations) THEN <<>>
    ELSE mod_create_input(s, m, cell) \o ModInputs(s, cell, m + 1)

\* The input vector of a cell: the base inputs, then each module's
InputsOf(s, cell) == create_input(s, cell) \o ModInputs(s, cell, 1)

\* create_all_outputs: one entry per live cell, in list order.  The entry
\* stands for cell.outputs(inputs): it keeps the inputs the output vector is
\* computed from; the decision function itself is the genome's and may be any.
create_all_outputs(s) ==
    [j \in 1..Len(s.cells) |->
        [src |-> s.cells[j], inputs |-> InputsOf(s, s.cells[j])]]

\* list(zip(self.cells, all_outputs))
Min(a, b) == IF a < b THEN a ELSE b

Max(a, b) == IF a > b THEN a ELSE b

\* a pairing that gives each cell the vector of the cell at the other end
ZipPairsCrossed(cs, outs) ==
    [j \in 1..Min(Len(cs), Len(outs)) |-> <<cs[j], outs[Len(outs) + 1 - j]>>]

ZipPairs(cs, outs) == [j \in 1..Min(Len(cs), Len(outs)) |-> <<cs[j], outs[j]>>]

\* The pair with its inputs read when the pair is applied
PairAtLive(ps, j) ==
    <<ps[j][1], [src |-> ps[j][1], inputs |-> InputsOf(Self, ps[j][1])]>>

\* The (cell, outputs) pair the loop of handle_all_outputs is at
PairAt(ps, j) == ps[j]

\* What an output slot can ask for: nothing, the death of the cell, a division
\* in a direction, the destruction of the neighbour in a direction
Cmds ==
    {[op |-> "noop", dir |-> 0], [op |-> "die", dir |-> 0]}
    \cup {[op |-> o, dir |-> d] : o \in {"divide", "kill"}, d \in Directions}

HandleCmd(s, cell, cmd) ==
    CASE cmd.op = "noop" -> s
      [] cmd.op = "die" -> destroy_cell(s, cell)
      [] cmd.op = "divide" -> divide_cell(s, cell, cmd.dir)
      [] cmd.op = "kill" ->
            LET c == neighbor(s.coords[cell], cmd.dir)
            IN  IF valid_coords(c) /\ s.hmap[c] # 0
                THEN destroy_cell(s, s.hmap[c])
                ELSE s

\* handle_output of the concrete simulation, on the non-module slice
handle_output(s, cell, outputs) ==
    IF outputs = <<>> THEN s ELSE HandleCmd(s, cell, outputs[1])

\* a module simulation's handle_output, on the module's slice: the module
\* can ask for the death of the cell
mod_handle_output(s, m, cell, module_output) ==
    IF module_output = <<>> THEN s
    ELSE IF module_output[1].op = "die" THEN destroy_cell(s, cell)
    ELSE s

\* What a module slot can ask for: nothing, or the death of the cell
ModuleCmds == {cmd \in Cmds : cmd.op \in {"noop", "die"}}

\* The output vectors the decision function can return: a command in every
\* non-module slot, die or nothing in every module slot
OutputVectors ==
    {base \o mods :
        base \in [1..non_module_outputs -> Cmds],
        mods \in [1..(num_outputs - non_module_outputs) -> ModuleCmds]}

\* outputs[i:i+n] of a Python list (0-based, clipped to the list)
Slice(seq, i, n) == SubSeq(seq, Min(i, Len(seq)) + 1, Min(i + n, Len(seq)))

\* History of the handler calls made for one pair: sim is 0 for the base
\* handler, else the position of the module simulation; before and after are
\* cell.alive around the call; start and len place the slice it was handed
LogCall(s, s1, sim, cell, i, n) ==
    [s1 EXCEPT !.log = Append(s.log,
        [sim |-> sim, cell |-> cell, before |-> s.alive[cell],
         after |-> s1.alive[cell], start |-> i, len |-> n])]

\* a module loop that goes on to the next module whatever became of the cell
RECURSIVE ModuleLoopNoBreak(_, _, _, _, _)
ModuleLoopNoBreak(s, cell, outputs, j, i) ==
    IF j > Min(Len(genome_modules), Len(module_simulations)) THEN s
    ELSE LET n == genome_modules[j].total_outputs
             module_output == Slice(outputs, i, n)
         IN  IF Len(module_output) # n THEN raise(s, "AssertionError")
             ELSE LET s1 == LogCall(s, mod_handle_output(s, j, cell,
                                                         module_output),
                                    j, cell, i, n)
                  IN  IF s1.exc # NoExc THEN s1
                      ELSE ModuleLoopNoBreak(s1, cell, outputs, j + 1, i + n)

\* the module loop of handle_all_outputs, from the j-th zipped pair on
RECURSIVE ModuleLoop(_, _, _, _, _)
ModuleLoop(s, cell, outputs, j, i) ==
    IF j > Min(Len(genome_modules), Len(module_simulations)) THEN s
    ELSE LET n == genome_modules[j].total_outputs
             module_output == Slice(outputs, i, n)
         IN  IF Len(module_output) # n THEN raise(s, "AssertionError")
             ELSE LET s1 == LogCall(s, mod_handle_output(s, j, cell,
                                                         module_output),
                                    j, cell, i, n)
                  IN  IF s1.exc # NoExc THEN s1
                      ELSE IF ~s1.alive[cell] THEN s1
                      ELSE ModuleLoop(s1, cell, outputs, j + 1, i + n)

\* the body of handle_all_outputs' loop for one (cell, outputs) pair
HandlePair(s, cell, outputs) ==
    LET nmi == non_module_outputs
        s0 == LogCall(s, handle_output(s, cell, Slice(outputs, 0, nmi)),
                      0, cell, 0, nmi)
    IN  IF s0.exc # NoExc THEN s0
        ELSE IF ~s0.alive[cell] THEN s0
        ELSE ModuleLoop(s0, cell, outputs, 1, nmi)

\* ----------------------------------------------------------------- run()
\* Python truth of genome.fitness: None and 0 are both false
Truthy(x) == x.set /\ x.value # 0

TargetReached(target, mf) == Truthy(target) /\ mf = target.value

\* an inactivity check that fires one tick early
InactiveEarly(sc, lc) == sc - lc >= InactivityWindow

Inactive(sc, lc) == sc - lc > InactivityWindow

\* a repeat check that never finds the fingerprint
RepeatStateNever(enabled, seen, h) == FALSE

RepeatState(enabled, seen, h) == enabled /\ h \in seen

\* The return statement run() takes after a tick, "" when the loop goes on
StopReason(target, mf, sc, lc, enabled, seen, h) ==
    IF TargetReached(target, mf) THEN "target"
    ELSE IF Inactive(sc, lc) THEN "inactivity"
    ELSE IF RepeatState(enabled, seen, h) THEN "repeat"
    ELSE ""

\* The value each return statement gives back
Returned(why, mf, fit) == IF why = "repeat" THEN fit ELSE mf

\* a check for looping that records nothing
SeenAddNothing(enabled, seen, h) == seen

\* self.seen_states.add(state_hash), when repeat detection is on
SeenAdd(enabled, seen, h) == IF enabled THEN seen \cup {h} ELSE seen

\* ------------------------------------------------------------------- Init
FitnessValues == 0..MaxFitness

MaxStepsChoices == {0, MaxStepsBound}

\* Coordinates a caller may hand to create_cell: the grid and one outside it
CallCoords == Coords \cup {<<bounds[1], bounds[2] - 1>>}

InitSelf ==
    [hmap |-> [c \in Coords |-> 0], cells |-> <<>>, cell_ids |-> <<>>,
     alive |-> <<>>, coords |-> <<>>, next_cell_id |-> 0, last_change |-> 0,
     step_count |-> 0, created_cells |-> 0, destroyed_cells |-> 0,
     mod_cells |-> [m \in 1..Len(module_simulations) |-> {}],
     exc |-> NoExc, ret |-> 0, log |-> <<>>]

\* Placeholder for a remembered simulation state when none is remembered
NoSelf ==
    [hmap |-> [c \in Coords |-> 0], cells |-> <<>>, cell_ids |-> <<>>,
     alive |-> <<>>, coords |-> <<>>, next_cell_id |-> 0, last_change |-> 0,
     step_count |-> 0, created_cells |-> 0, destroyed_cells |-> 0,
     mod_cells |-> <<>>, exc |-> NoExc, ret |-> 0, log |-> <<>>]

NoCall ==
    [op |-> "none", cell |-> 0, coords |-> <<0, 0>>, blocked |-> FALSE,
     pre |-> NoSelf, post_exc |-> NoExc, ret |-> 0,
     has_undo |-> FALSE, undo |-> NoSelf]

InitHist ==
    [call |-> NoCall,          \* the last direct lifecycle call and the state before it
     tick_pre |-> NoSelf,      \* the cells, grid and module state the current
                               \* tick found (counters and last_change blank)
     lc_pre |-> -1,            \* last_change as the current tick found it, kept
                               \* while the tick has created and destroyed nothing
     pre_count |-> 0,          \* live cells the tick just completed started with
     in_tick |-> FALSE,        \* a tick has started and not completed
     applied |-> 0,            \* pairs applied so far in the current tick
     used |-> <<>>,            \* the pair applied last
     stale |-> FALSE,          \* its inputs were out of date when it was applied
                               \* (direct ticks)
     run_start |-> 0,          \* step_count when run() was called
     ticks |-> 0,              \* ticks of the run that have completed
     best |-> 0,               \* largest fitness seen after a tick of the run
     change_tick |-> -1,       \* tick of the run's last creation or destruction
     run_hashes |-> {},        \* fingerprints after the earlier ticks of the run
     seen_before |-> {},       \* seen_states as the last check found it
     revisit |-> FALSE,        \* the last tick ended on one of run_hashes
     log |-> <<>>,             \* handler calls made for the pair applied last
                               \* (direct ticks)
     hooks |-> <<>>]           \* what the end of the last tick did, in order

Init ==
    /\ genome_modules \in ModuleLists
    /\ module_simulations = init_module_simulations(genome_modules)
    /\ hmap = InitSelf.hmap
    /\ cells = <<>>
    /\ cell_ids = <<>>
    /\ alive = <<>>
    /\ coords = <<>>
    /\ next_cell_id = 0
    /\ last_change = 0
    /\ step_count = 0
    /\ created_cells = 0
    /\ destroyed_cells = 0
    /\ mod_cells = InitSelf.mod_cells
    /\ max_steps \in MaxStepsChoices
    /\ break_on_repeat \in BOOLEAN
    /\ seen_states = {}
    /\ genome_fitness \in {NoTarget} \cup {Target(v) : v \in FitnessValues}
    /\ pc = "idle"
    /\ caller = "none"
    /\ exc = NoExc
    /\ all_outputs = <<>>
    /\ pairs = <<>>
    /\ k = 0
    /\ loop_i = 0
    /\ max_fitness = 0
    /\ result = 0
    /\ reason = ""
    /\ hist = InitHist

\* The fields of the simulation object take the values of s
Install(s) ==
    /\ hmap' = s.hmap
    /\ cells' = s.cells
    /\ cell_ids' = s.cell_ids
    /\ alive' = s.alive
    /\ coords' = s.coords
    /\ next_cell_id' = s.next_cell_id
    /\ last_change' = s.last_change
    /\ step_count' = s.step_count
    /\ created_cells' = s.created_cells
    /\ destroyed_cells' = s.destroyed_cells
    /\ mod_cells' = s.mod_cells

config == <<genome_modules, module_simulations, max_steps, break_on_repeat, genome_fitness>>

tick_vars == <<all_outputs, pairs, k>>

run_vars == <<loop_i, max_fitness, result, reason, seen_states>>

\* ------------------------------------------------- direct lifecycle calls
\* Whether divide_cell(cell, d) called in state s finds its target blocked
Blocked(s, cell, d) ==
    LET c == neighbor(s.coords[cell], d)
    IN  ~valid_coords(c) \/ s.hmap[c] # 0

\* The record of a direct call: c is the coordinate create_cell is given or
\* divide_cell aims at, b whether divide_cell found that coordinate blocked
Called(op, cell, c, b, r) ==
    [op |-> op, cell |-> cell, coords |-> c, blocked |-> b, pre |-> Self,
     post_exc |-> r.exc, ret |-> r.ret,
     has_undo |-> /\ op = "destroy_cell"
                  /\ hist.call.op = "create_cell"
                  /\ hist.call.post_exc = NoExc
                  /\ hist.call.ret = cell,
     undo |-> hist.call.pre]

CreateCellCall(c) ==
    /\ pc = "idle"
    /\ LET r == create_cell(Self, c)
       IN  /\ Len(r.cell_ids) <= MaxCells
           /\ Install(r)
           /\ exc' = r.exc
           /\ hist' = [hist EXCEPT !.call = Called("create_cell", 0, c, FALSE, r),
                                   !.tick_pre = NoSelf]
    /\ UNCHANGED <<config, tick_vars, run_vars, pc, caller>>

DestroyCellCall(cell) ==
    /\ pc = "idle"
    /\ LET r == destroy_cell(Self, cell)
       IN  /\ Install(r)
           /\ exc' = r.exc
           /\ hist' = [hist EXCEPT
                         !.call = Called("destroy_cell", cell, <<0, 0>>, FALSE, r),
                         !.tick_pre = NoSelf]
    /\ UNCHANGED <<config, tick_vars, run_vars, pc, caller>>

DivideCellCall(cell, d) ==
    /\ pc = "idle"
    /\ LET r == divide_cell(Self, cell, d)
       IN  /\ Len(r.cell_ids) <= MaxCells
           /\ Install(r)
           /\ exc' = r.exc
           /\ hist' = [hist EXCEPT
                         !.call = IF Blocked(Self, cell, d)
                                  THEN Called("divide_cell", cell, <<0, 0>>,
                                              TRUE, r)
                                  ELSE Called("divide_cell", cell,
                                              neighbor(coords[cell], d),
                                              FALSE, r),
                         !.tick_pre = NoSelf]
    /\ UNCHANGED <<config, tick_vars, run_vars, pc, caller>>

\* ------------------------------------------------------------ super_step
\* a reset that forgets the destroyed counter
reset_created_only(s) == [s EXCEPT !.created_cells = 0]

\* super_step's first two statements
reset_counters(s) == [s EXCEPT !.created_cells = 0, !.destroyed_cells = 0]

\* What super_step does once handle_all_outputs has returned, in order:
\* self.step(), each module simulation's step(), step_count += 1
super_step_tail ==
    <<[hook |-> "step", sim |-> 0]>>
    \o [j \in 1..Len(module_simulations) |-> [hook |-> "module_step", sim |-> j]]
    \o <<[hook |-> "step_count", sim |-> 0]>>

\* super_step called by the user of the simulation
SuperStepCall ==
    /\ pc = "idle"
    /\ step_count < MaxDirectSteps
    /\ pc' = "collect"
    /\ caller' = "direct"
    /\ exc' = NoExc
    /\ hist' = [hist EXCEPT !.call = NoCall]
    /\ UNCHANGED <<hmap, cells, cell_ids, alive, coords, next_cell_id,
                   last_change, step_count, created_cells, destroyed_cells,
                   mod_cells, config, tick_vars, run_vars>>

\* super_step up to the call of handle_all_outputs: the counters are reset,
\* create_all_outputs runs over the live cells, the pairs are zipped
Collect ==
    /\ pc = "collect"
    /\ LET s == reset_counters(Self)
           outs == create_all_outputs(s)
           ps == ZipPairs(s.cells, outs)
       IN  /\ Install(s)
           /\ all_outputs' = outs
           /\ pairs' = ps
           /\ k' = 1
           /\ pc' = IF Len(ps) = 0 THEN "step_end" ELSE "apply"
           /\ hist' = [hist EXCEPT
                         !.tick_pre = [s EXCEPT !.last_change = 0],
                         !.lc_pre = last_change, !.pre_count = 0,
                         !.in_tick = TRUE, !.applied = 0, !.used = <<>>,
                         !.stale = FALSE, !.log = <<>>]
    /\ UNCHANGED <<config, run_vars, caller, exc>>

\* One iteration of handle_all_outputs' loop.  outputs is the vector the
\* decision function returned for the inputs kept in the pair; r ranges over
\* the states the loop body can leave, one per distinct effect.
ApplyPair ==
    /\ pc = "apply"
    /\ k <= Len(pairs)
    /\ \E r \in {HandlePair(Self, PairAt(pairs, k)[1], outputs) :
                    outputs \in OutputVectors} :
          LET p == PairAt(pairs, k)
              changed == r.alive # alive
          IN  /\ Len(r.cell_ids) <= MaxCells
              /\ Install(r)
              /\ exc' = r.exc
              /\ k' = k + 1
              /\ pc' = IF r.exc # NoExc THEN "aborted"
                       ELSE IF k + 1 > Len(pairs) THEN "step_end"
                       ELSE "apply"
              /\ hist' = [hist EXCEPT
                            !.applied = @ + 1,
                            !.used = p,
                            !.stale = /\ caller = "direct"
                                      /\ pairs[k][2].inputs #
                                           InputsOf(Self, pairs[k][1]),
                            !.log = IF caller = "direct" THEN r.log ELSE <<>>,
                            !.lc_pre = IF changed THEN -1 ELSE @,
                            !.change_tick = IF changed /\ caller = "run"
                                            THEN step_count ELSE @]
    /\ UNCHANGED <<config, run_vars, caller, all_outputs, pairs>>

\* The end of super_step: step(), the module simulations' step(), step_count;
\* super_step returns and its locals are gone
StepEnd ==
    /\ pc = "step_end"
    /\ step_count' = step_count + 1
    /\ pc' = IF caller = "run" THEN "check" ELSE "idle"
    /\ caller' = IF caller = "run" THEN "run" ELSE "none"
    /\ all_outputs' = <<>>
    /\ pairs' = <<>>
    /\ k' = 0
    /\ hist' = [hist EXCEPT !.in_tick = FALSE, !.used = <<>>,
                            !.stale = FALSE, !.tick_pre = NoSelf,
                            !.pre_count = Len(hist.tick_pre.cells),
                            !.lc_pre = -1,
                            !.log = <<>>, !.hooks = super_step_tail]
    /\ UNCHANGED <<hmap, cells, cell_ids, alive, coords, next_cell_id,
                   last_change, created_cells, destroyed_cells, mod_cells,
                   config, run_vars, exc>>

\* ------------------------------------------------------------------ run()
\* a loop that allows one iteration more
LoopOneMore(i, n) == i < n + 1

\* for _ in range(self.max_steps): whether iteration i (from 0) is run
LoopGoesOn(i, n) == i < n

\* run() is called: max_fitness = 0 and the for loop is entered
RunCall ==
    /\ pc = "idle"
    /\ caller' = "run"
    /\ max_fitness' = 0
    /\ loop_i' = 0
    /\ exc' = NoExc
    /\ IF ~LoopGoesOn(0, max_steps)
       THEN /\ pc' = "done"
            /\ result' = 0
            /\ reason' = "max_steps"
       ELSE /\ pc' = "collect"
            /\ UNCHANGED <<result, reason>>
    /\ hist' = [hist EXCEPT !.call = NoCall, !.run_start = step_count]
    /\ UNCHANGED <<hmap, cells, cell_ids, alive, coords, next_cell_id,
                   last_change, step_count, created_cells, destroyed_cells,
                   mod_cells, config, tick_vars, seen_states>>

\* The body of run()'s loop after super_step returned: the fitness, the stop
\* conditions in the order of the code, the next iteration or the final return
RunCheck ==
    /\ pc = "check"
    /\ \E fit \in FitnessValues :
          LET mf == Max(max_fitness, fit)
              h == hash(hmap)
              why == StopReason(genome_fitness, mf, step_count, last_change,
                                break_on_repeat, seen_states, h)
          IN  /\ max_fitness' = mf
              /\ IF why # ""
                 THEN /\ pc' = "done"
                      /\ result' = Returned(why, mf, fit)
                      /\ reason' = why
                      /\ UNCHANGED <<loop_i, seen_states>>
                 ELSE /\ seen_states' = SeenAdd(break_on_repeat, seen_states, h)
                      /\ loop_i' = loop_i + 1
                      /\ IF LoopGoesOn(loop_i + 1, max_steps)
                         THEN /\ pc' = "collect"
                              /\ UNCHANGED <<result, reason>>
                         ELSE /\ pc' = "done"
                              /\ result' = mf
                              /\ reason' = "max_steps"
              /\ hist' = [hist EXCEPT
                            !.ticks = @ + 1,
                            !.best = IF hist.ticks = 0 \/ fit > @
                                     THEN fit ELSE @,
                            !.run_hashes = IF break_on_repeat
                                           THEN @ \cup {h} ELSE @,
                            !.seen_before = IF pc' = "done"
                                            THEN seen_states ELSE {},
                            !.revisit = h \in hist.run_hashes]
    /\ UNCHANGED <<hmap, cells, cell_ids, alive, coords, next_cell_id,
                   last_change, step_count, created_cells, destroyed_cells,
                   mod_cells, config, tick_vars, caller, exc>>

\* A cell the concrete simulation places before the run
Seed(c) ==
    /\ Len(cell_ids) < MaxSeeds
    /\ step_count = 0
    /\ valid_coords(c)
    /\ CreateCellCall(c)

Next ==
    \/ \E c \in CallCoords : CreateCellCall(c)
    \/ \E cell \in 1..Len(cell_ids) : DestroyCellCall(cell)
    \/ \E cell \in 1..Len(cell_ids), d \in Directions : DivideCellCall(cell, d)
    \/ SuperStepCall
    \/ Collect
    \/ ApplyPair
    \/ StepEnd
    \/ RunCall
    \/ RunCheck

Spec == Init /\ [][Next]_vars

\* The lifecycle on its own: direct calls and direct ticks of a simulation
\* constructed with the default stop conditions
LifeInit ==
    /\ Init
    /\ genome_modules = GenomeModules
    /\ max_steps = MaxStepsBound
    /\ ~break_on_repeat
    /\ genome_fitness = NoTarget

LifeNext ==
    \/ \E c \in CallCoords : CreateCellCall(c)
    \/ \E cell \in 1..Len(cell_ids) : DestroyCellCall(cell)
    \/ \E cell \in 1..Len(cell_ids), d \in Directions : DivideCellCall(cell, d)
    \/ SuperStepCall
    \/ Collect
    \/ ApplyPair
    \/ StepEnd

LifeSpec == LifeInit /\ [][LifeNext]_vars

\* A run: the simulation is seeded, then run() is called once
RunNext ==
    \/ \E c \in Coords : Seed(c)
    \/ RunCall
    \/ Collect
    \/ ApplyPair
    \/ StepEnd
    \/ RunCheck

RunInit ==
    /\ Init
    /\ genome_modules = GenomeModules

RunSpec == RunInit /\ [][RunNext]_vars

\* The same run under the scheduling of the code: run() is one synchronous
\* call, so a step of it that can be taken is taken.  The last conjunct is
\* WF_vars(ApplyPair) written out: ApplyPair is enabled exactly when pc is
\* "apply", the loop of handle_all_outputs having a pair left.
RunLiveSpec ==
    /\ RunInit
    /\ [][RunNext]_vars
    /\ WF_vars(Collect)
    /\ WF_vars(StepEnd)
    /\ WF_vars(RunCheck)
    /\ ([]<>(pc # "apply") \/ []<><<ApplyPair>>_vars)

\* Direct ticks of a simulation whose cells are placed before the first tick,
\* for every genome module list
ModInit ==
    /\ Init
    /\ max_steps = MaxStepsBound
    /\ ~break_on_repeat
    /\ genome_fitness = NoTarget

ModNext ==
    \/ \E c \in Coords : step_count = 0 /\ CreateCellCall(c)
    \/ SuperStepCall
    \/ Collect
    \/ ApplyPair
    \/ StepEnd

ModSpec == ModInit /\ [][ModNext]_vars

\* ================================================================ claims
\* C1: whenever no tick is under way, the grid and the live-cell list agree:
\* as many occupied coordinates as live cells, and a coordinate holds a cell
\* exactly when that cell is alive, in the list, and stored at the coordinate.
C1_GridRegistryAgree ==
    ~hist.in_tick =>
        /\ Cardinality(Occupied(hmap)) = Len(cells)
        /\ \A c \in Coords : hmap[c] \in 0..Len(cell_ids)
        /\ \A c \in Coords : \A cell \in 1..Len(cell_ids) :
              hmap[c] = cell <=>
                  (alive[cell] /\ InList(cells, cell) /\ coords[cell] = c)

\* a direct tick has completed, a cell has died and another lives
C1_Witness ==
    /\ pc = "idle"
    /\ step_count >= 1
    /\ Len(cells) >= 1
    /\ \E cell \in 1..Len(cell_ids) : ~alive[cell]

\* C2: the inputs behind every output vector that is applied are those of
\* the state the tick started in, and every cell of that state has its entry
\* before the first pair is applied.
C2_CollectBeforeApply ==
    hist.used # <<>> =>
        /\ hist.used[2].inputs = InputsOf(hist.tick_pre, hist.used[1])
        /\ Len(all_outputs) = Len(hist.tick_pre.cells)
        /\ \A j \in 1..Len(all_outputs) :
              all_outputs[j].inputs =
                  InputsOf(hist.tick_pre, hist.tick_pre.cells[j])

\* a pair was applied after an earlier pair of the tick changed its
\* neighbourhood
C2_Witness ==
    /\ hist.used # <<>>
    /\ hist.stale
    /\ hist.applied >= 2

\* C3: create_cell on an in-bounds empty coordinate adds exactly one live cell
\* and puts it on the grid there; destroy_cell on that cell right after gives
\* back the live-cell count and the grid of before the create.
C3_CreateDestroyInverse ==
    LET call == hist.call
    IN  /\ (/\ call.op = "create_cell"
            /\ valid_coords(call.coords)
            /\ call.pre.hmap[call.coords] = 0)
           => /\ exc = NoExc
              /\ Len(cells) = Len(call.pre.cells) + 1
              /\ hmap[call.coords] = call.ret
              /\ call.ret = Len(call.pre.cell_ids) + 1
              /\ InList(cells, call.ret)
              /\ \A c \in Coords \ {call.coords} : hmap[c] = call.pre.hmap[c]
        /\ (call.op = "destroy_cell" /\ call.has_undo)
           => /\ exc = NoExc
              /\ Len(cells) = Len(call.undo.cells)
              /\ hmap = call.undo.hmap

\* a cell was created beside a live one and destroyed by the next call
C3_Witness ==
    /\ hist.call.op = "destroy_cell"
    /\ hist.call.has_undo
    /\ Len(cells) >= 1

\* C4: divide_cell on a live cell whose target is out of bounds or occupied
\* changes nothing and raises nothing; with the target in bounds and empty it
\* creates exactly one cell, there.
C4_DivideBlockedNoOp ==
    LET call == hist.call
        pre == call.pre
    IN  (call.op = "divide_cell" /\ pre.alive[call.cell]) =>
            IF call.blocked
            THEN /\ exc = NoExc
                 /\ cells = pre.cells
                 /\ hmap = pre.hmap
                 /\ created_cells = pre.created_cells
                 /\ last_change = pre.last_change
                 /\ next_cell_id = pre.next_cell_id
            ELSE LET c == call.coords
                 IN  /\ exc = NoExc
                     /\ Len(cell_ids) = Len(pre.cell_ids) + 1
                     /\ cells = Append(pre.cells, Len(cell_ids))
                     /\ hmap = [pre.hmap EXCEPT ![c] = Len(cell_ids)]

\* a division of a live cell that found its target blocked, called after a
\* tick and with another cell on the grid
C4_Witness ==
    /\ hist.call.op = "divide_cell"
    /\ hist.call.pre.alive[hist.call.cell]
    /\ hist.call.blocked
    /\ step_count >= 1
    /\ Len(cells) >= 2

\* C5: the ids of the cells are strictly increasing in creation order, so no
\* id is given twice, whether its first holder is alive or not.
C5_IdsIncreasing ==
    \A a, b \in 1..Len(cell_ids) : a < b => cell_ids[a] < cell_ids[b]

\* a cell was created where a destroyed cell had been
C5_Witness ==
    \E a, b \in 1..Len(cell_ids) :
        a < b /\ ~alive[a] /\ alive[b] /\ coords[a] = coords[b]

\* C6: whatever ends the run, run() returns the largest fitness seen after
\* the ticks of the run.
C6_ReturnsMaxObserved ==
    (pc = "done" /\ hist.ticks > 0) => result = hist.best

\* The last tick of the run that has completed, or is under way
LastTick == IF pc \in {"collect", "apply", "step_end"}
            THEN step_count ELSE step_count - 1

\* C7: when the last creation or destruction of the run is in tick L, no tick
\* after L+5 is run; a run that ends for inactivity ends right after tick L+5;
\* and when the loop reaches that far and neither the target nor a repeated
\* state ends the run first, inactivity ends it there.
C7_InactivityStop ==
    LET L == hist.change_tick
    IN  (caller = "run" /\ L >= 0) =>
            /\ LastTick <= L + 5
            /\ (pc = "done" /\ reason = "inactivity") => LastTick = L + 5
            /\ (/\ pc = "done"
                /\ reason \notin {"target", "repeat"}
                /\ hist.run_start + max_steps - 1 >= L + 5)
               => (reason = "inactivity" /\ LastTick = L + 5)
            /\ (/\ pc = "done"
                /\ reason \notin {"target", "repeat"}
                /\ max_steps = 10 /\ hist.run_start = 0 /\ L = 2)
               => (reason = "inactivity" /\ LastTick = 7)

\* the last change is in tick 2 and the run ends for inactivity after tick 7
C7_Witness ==
    /\ pc = "done"
    /\ reason = "inactivity"
    /\ hist.change_tick = 2
    /\ step_count = 8
    /\ max_steps >= 10

\* C8: with break_on_repeat, once a tick ends on a fingerprint that an
\* earlier tick of the run ended on, the run has returned: no tick follows.
C8_RepeatStops ==
    (caller = "run" /\ break_on_repeat /\ hist.revisit) => pc = "done"

\* the grid left an occupancy, came back to it two ticks later, and the run
\* ended on the repeat
C8_Witness ==
    /\ break_on_repeat
    /\ hist.revisit
    /\ pc = "done"
    /\ reason = "repeat"
    /\ hist.change_tick = 2

\* C9: with a target configured, once the running maximum equals the target
\* after a tick the run has returned, and has returned the target.
C9_TargetStops ==
    (/\ caller = "run"
     /\ pc # "check"
     /\ hist.ticks > 0
     /\ genome_fitness.set
     /\ max_fitness = genome_fitness.value)
    => (pc = "done" /\ result = genome_fitness.value)

\* C10: no stop condition ends the run before a tick has completed, and the
\* run ends with the first that holds of: the target is configured and
\* reached, inactivity, a repeated state (when enabled), the step limit.
C10_StopOrder ==
    /\ reason # "" => pc = "done"
    /\ pc = "done" =>
          IF hist.ticks = 0 THEN reason = "max_steps"
          ELSE LET target == /\ genome_fitness.set
                             /\ max_fitness = genome_fitness.value
                   inactive == step_count - last_change > 5
                   repeat == /\ break_on_repeat
                             /\ hash(hmap) \in hist.seen_before
               IN  reason = IF target THEN "target"
                            ELSE IF inactive THEN "inactivity"
                            ELSE IF repeat THEN "repeat"
                            ELSE "max_steps"

\* C11: run() ends, by a return or by an exception a handler raised; it runs
\* at most max_steps ticks; and when it returns on a simulation started at
\* step_count 0, step_count is at most max_steps, and equals max_steps exactly
\* when no stop condition ended the run after a tick before the last one.
C11_RunTerminates ==
    /\ [](caller = "run" => hist.ticks <= max_steps)
    /\ []((pc = "done" /\ hist.run_start = 0) =>
            /\ step_count = hist.ticks
            /\ step_count <= max_steps
            /\ (step_count = max_steps) <=>
                   ~(reason # "max_steps" /\ hist.ticks < max_steps))
    /\ (caller = "run") ~> (pc \in {"done", "aborted"})

\* a run kept alive by a change in tick 5 returns at the step limit
C11_Witness ==
    /\ pc = "done"
    /\ reason = "max_steps"
    /\ max_steps > 0
    /\ step_count = max_steps
    /\ hist.change_tick >= 0

\* C12: every call of a module simulation's output handler hands it the slice
\* of its own module: from non_module_outputs plus the output counts of the
\* modules before its module in genome.modules, as long as its module's
\* output count.
C12_ModuleSlices ==
    \A e \in 1..Len(hist.log) :
        LET call == hist.log[e]
            own == module_simulations[call.sim]
        IN  call.sim > 0 =>
                /\ call.start = non_module_outputs + SumOutputs(own - 1)
                /\ call.len = genome_modules[own].total_outputs

\* C13: create_cell called directly with a coordinate outside the grid or an
\* occupied one raises, and every field of the simulation is as before: no
\* cell object, no id taken, grid, list, counters and last_change unchanged,
\* no module simulation told of a cell.
C13_CreateRejected ==
    LET call == hist.call
        pre == call.pre
    IN  (/\ call.op = "create_cell"
         /\ (~valid_coords(call.coords) \/ pre.hmap[call.coords] # 0))
        => /\ exc = "AssertionError"
           /\ call.post_exc = "AssertionError"
           /\ hmap = pre.hmap
           /\ cells = pre.cells
           /\ cell_ids = pre.cell_ids
           /\ alive = pre.alive
           /\ coords = pre.coords
           /\ next_cell_id = pre.next_cell_id
           /\ created_cells = pre.created_cells
           /\ destroyed_cells = pre.destroyed_cells
           /\ last_change = pre.last_change
           /\ step_count = pre.step_count
           /\ mod_cells = pre.mod_cells

\* after a tick, create_cell was called on the coordinate of a live cell
C13_Witness ==
    /\ hist.call.op = "create_cell"
    /\ valid_coords(hist.call.coords)
    /\ hist.call.pre.hmap[hist.call.coords] # 0
    /\ exc = "AssertionError"
    /\ step_count >= 1
    /\ last_change = 0

\* C14: when a tick completes, last_change is the index of that tick (the
\* step_count the tick ran with) if a cell was created or destroyed in it,
\* and is what it was before the tick if none was.
C14_LastChangeIsTick ==
    [][(pc = "step_end" /\ pc' # "step_end") =>
          LET pre == hist.tick_pre
          IN  /\ step_count' = pre.step_count + 1
              /\ last_change' = IF alive # pre.alive
                                THEN pre.step_count
                                ELSE hist.lc_pre]_vars

\* a tick of a run, not the first, has completed with a destruction in it,
\* after an earlier tick with a change
C14_Witness ==
    /\ pc = "check"
    /\ step_count >= 3
    /\ last_change = step_count - 1
    /\ hist.change_tick = step_count - 1
    /\ destroyed_cells >= 1
    /\ hist.pre_count >= 2

\* C15: when a handler call made for a pair leaves the pair's cell dead, it
\* is the last call made for that pair: no module handler later in the order
\* is called; nothing is raised, and the loop is at the next pair or past the
\* last one.
C15_DeadCellSkipsModules ==
    \A e \in 1..Len(hist.log) :
        LET call == hist.log[e]
        IN  (call.before /\ ~call.after) =>
                /\ e = Len(hist.log)
                /\ exc = NoExc
                /\ pc = IF k <= Len(pairs) THEN "apply" ELSE "step_end"

\* with two module simulations, the first module's handler killed the cell
\* of the first pair, the second module's handler was not called and the
\* second pair is next
C15_Witness ==
    /\ Len(module_simulations) = 2
    /\ pc = "apply"
    /\ k = 2
    /\ Len(pairs) = 2
    /\ exc = NoExc
    /\ Len(hist.log) = 2
    /\ hist.log[2].sim = 1
    /\ hist.log[2].before
    /\ ~hist.log[2].after

\* C16: every handler call, base or module, is made on a cell that is alive
\* when the call is made.
C16_NoHandlerOnDeadCell ==
    \A e \in 1..Len(hist.log) : hist.log[e].before

\* C17: all through a tick the pairs are those of the live list the tick
\* started with, each cell with the vector computed from its own input in
\* that state; the pairs are applied in that order; and no handler is called
\* on a cell created during the tick.
C17_ApplyOnSnapshot ==
    LET pre == hist.tick_pre
    IN  (hist.in_tick /\ pc # "collect") =>
            /\ Len(pairs) = Len(pre.cells)
            /\ \A j \in 1..Len(pairs) :
                  pairs[j] = <<pre.cells[j],
                               [src |-> pre.cells[j],
                                inputs |-> InputsOf(pre, pre.cells[j])]>>
            /\ hist.used # <<>> => hist.used = pairs[hist.applied]
            /\ \A e \in 1..Len(hist.log) :
                  /\ hist.log[e].cell = pre.cells[hist.applied]
                  /\ hist.log[e].cell <= Len(pre.cell_ids)

\* every pair of a tick has been applied; a cell was created during the tick
\* and the cell of the last pair is dead
C17_Witness ==
    /\ pc = "step_end"
    /\ Len(pairs) >= 1
    /\ hist.applied = Len(pairs)
    /\ Len(cell_ids) > Len(hist.tick_pre.cell_ids)
    /\ ~alive[hist.used[1]]

\* C18: the end of a tick runs the step hooks of the module simulations in
\* module order, then the simulation's own step(), then adds 1 to step_count.
C18_StepEndOrder ==
    hist.hooks # <<>> =>
        hist.hooks =
            [j \in 1..Len(module_simulations) |->
                [hook |-> "module_step", sim |-> j]]
            \o <<[hook |-> "step", sim |-> 0],
                 [hook |-> "step_count", sim |-> 0]>>

\* The cells whose alive flag is set
LiveCount(al) == Cardinality({cell \in 1..Len(al) : al[cell]})

\* C19: both counters are zero when the first pair of a tick is about to be
\* applied; all through a tick and after it the live cells number those the
\* tick started with plus created_cells minus destroyed_cells.
C19_TickCounters ==
    /\ (pc = "apply" /\ hist.applied = 0) =>
          (created_cells = 0 /\ destroyed_cells = 0)
    /\ hist.in_tick =>
          LET before == Len(hist.tick_pre.cells)
          IN  /\ Len(cells) = before + created_cells - destroyed_cells
              /\ LiveCount(alive) = before + created_cells - destroyed_cells
    /\ (caller = "run" /\ ~hist.in_tick /\ step_count >= 1) =>
          /\ Len(cells) = hist.pre_count + created_cells - destroyed_cells
          /\ LiveCount(alive) = hist.pre_count + created_cells - destroyed_cells

\* a tick of a run, after the first, has completed with a creation and a
\* destruction in it
C19_Witness ==
    /\ pc = "check"
    /\ step_count >= 2
    /\ created_cells >= 1
    /\ destroyed_cells >= 1
    /\ hist.pre_count >= 1

\* C20: with break_on_repeat no run ends for inactivity: the run has returned
\* by the second tick in a row without a creation or destruction, so
\* step_count - last_change never passes 2, and from the third tick on a
\* tick is started only when the tick before it changed the grid.
C20_RepeatBeforeInactivity ==
    (caller = "run" /\ break_on_repeat) =>
        /\ reason # "inactivity"
        /\ step_count - last_change <= 2
        /\ (pc \in {"collect", "apply", "step_end"} /\ hist.ticks >= 2) =>
              last_change >= step_count - 1

\* nothing was created or destroyed in the first two ticks of a run on a
\* seeded grid, and the run ended on the repeat
C20_Witness ==
    /\ break_on_repeat
    /\ pc = "done"
    /\ reason = "repeat"
    /\ step_count = 2
    /\ hist.change_tick = -1
    /\ Len(cells) >= 1
====
